---- MODULE Spec2Model ----
(***************************************************************************)
(* Model of extract_metadata.py: a folder of files is thumbnailed          *)
(* (generate_thumbnails), described (collect_metadata) and laid out on     *)
(* A4 pages (create_pdf_report), in that order (main).                     *)
(*                                                                         *)
(* Lengths on the page are kept exact: one point is PtUnit model units, so *)
(* that A4 (210mm x 297mm, 1mm = 72/25.4 pt), 0.5 inch and 0.3 inch are    *)
(* all whole numbers.  A thumbnail pixel is drawn as one point.            *)
(***************************************************************************)
EXTENDS Integers, Sequences, FiniteSets, TLC

VARIABLES
    pc,          \* position of main: start, thumbs, collect, report, done, failed;
                 \* call, returned for a function applied on its own
    folder,      \* main's folder argument, a path (sequence of components)
    output_pdf,  \* main's output_pdf argument, a path
    input,       \* the folder's content when the run starts: name -> file
    disk,        \* the filesystem: path -> file
    written,     \* the paths the run has written (img.save, c.save)
    names,       \* sorted(os.listdir(folder)), the iterable of the first loop
    i,           \* index of the next name in generate_thumbnails' loop
    thumbs,      \* the thumbs dict, in insertion order: <<[fname, path, size]>>
    k,           \* index of the next item in collect_metadata's loop
    entries,     \* the entries list
    e,           \* index of the next entry in create_pdf_report's loop
    y,           \* create_pdf_report's cursor
    pages,       \* number of c.showPage() calls so far
    drawn,       \* what create_pdf_report has drawn, one record per entry
    arg,         \* argument of a function applied on its own
    ret          \* its result, <<>> before the call

vars == <<pc, folder, output_pdf, input, disk, written, names, i, thumbs, k,
          entries, e, y, pages, drawn, arg, ret>>

(***************************************************************************)
(* Bounds of the model.                                                    *)
(***************************************************************************)
MaxFiles == 3
MaxEntries == 5
DimSteps == 30

(***************************************************************************)
(* Layout constants (lines 7-15).                                          *)
(***************************************************************************)
PtUnit == 5 * 127
inch == 72 * PtUnit
PAGE_WIDTH == (210 * inch * 10) \div 254
PAGE_HEIGHT == (297 * inch * 10) \div 254
MARGIN == inch \div 2
MAX_THUMB_DIM == 5 * inch
LINE_HEIGHT == 14 * PtUnit
ENTRY_SPACING == (3 * inch) \div 10

\* img.thumbnail((MAX_THUMB_DIM, MAX_THUMB_DIM)) takes the floor of the size, in pixels
MaxThumbPx == MAX_THUMB_DIM \div PtUnit

Abs(n) == IF n < 0 THEN -n ELSE n
Max2(a, b) == IF a >= b THEN a ELSE b

(***************************************************************************)
(* format_filesize: bytes / 2^20 printed with two decimals (round half to  *)
(* even, the quotient being exact in binary when it is a tie).             *)
(***************************************************************************)
format_filesize(bytes_size) ==
    LET n == bytes_size * 100
        d == 1024 * 1024
        q == n \div d
        r == n % d
        h == IF 2 * r > d \/ (2 * r = d /\ q % 2 = 1) THEN q + 1 ELSE q
    IN  [mb |-> h \div 100, hundredths |-> h % 100, unit |-> "MB"]

MonthNames == <<"January", "February", "March", "April", "May", "June", "July",
                "August", "September", "October", "November", "December">>

\* format_datetime: "%d %B %Y at %H:%M" of a datetime <<Y, M, D, h, m, s>>
format_datetime(dt) ==
    [day |-> dt[3], month |-> MonthNames[dt[2]], year |-> dt[1],
     hour |-> dt[4], minute |-> dt[5]]

(***************************************************************************)
(* Dates.  A tag is <<>> when absent and <<text>> when present; a text     *)
(* "Y:M:D h:m:s" is the tuple of its six numbers, any other text a tuple   *)
(* of another length.                                                      *)
(***************************************************************************)
IsLeap(yr) == (yr % 4 = 0 /\ yr % 100 # 0) \/ yr % 400 = 0

DaysInMonth(yr, mo) ==
    IF mo = 2 THEN (IF IsLeap(yr) THEN 29 ELSE 28)
    ELSE IF mo \in {4, 6, 9, 11} THEN 30 ELSE 31

\* datetime.strptime(text, '%Y:%m:%d %H:%M:%S') returns (TRUE) or raises (FALSE)
strptime_ok(text) ==
    /\ Len(text) = 6
    /\ text[1] \in 1..9999
    /\ text[2] \in 1..12
    /\ text[3] \in 1..DaysInMonth(text[1], text[2])
    /\ text[4] \in 0..23
    /\ text[5] \in 0..59
    /\ text[6] \in 0..59

\* datetime.fromtimestamp, for timestamps of January 1970 read in UTC
fromtimestamp(t) ==
    <<1970, 1, 1 + (t \div 86400), (t % 86400) \div 3600, (t % 3600) \div 60, t % 60>>

\* get_file_creation_date: st_birthtime where the platform has it, else st_ctime
get_file_creation_date(f) ==
    fromtimestamp(IF f.birth # <<>> THEN f.birth[1] ELSE f.ctime)

\* extract_creation_date: the first PRESENT tag is the only one parsed
extract_creation_date(f) ==
    LET date_tag == IF f.dto # <<>> THEN f.dto ELSE f.dt
    IN  IF date_tag # <<>> /\ strptime_ok(date_tag[1])
        THEN date_tag[1]
        ELSE get_file_creation_date(f)

(***************************************************************************)
(* DPI descriptor of collect_metadata.  The three f-strings are kept apart *)
(* by their form; a and b are the two values printed.                      *)
(***************************************************************************)
DpiUnknown == [form |-> "Unknown", a |-> 0, b |-> 0]

\* a faulty variant: the tags are asked before the decoded image's info
dpi_descriptor_tags_first(f) ==
    IF f.xres # <<>> /\ f.unit # <<>>
    THEN [form |-> "value unit", a |-> f.xres[1], b |-> f.unit[1]]
    ELSE IF f.dpi # <<>>
    THEN [form |-> "x x y dpi", a |-> f.dpi[1], b |-> f.dpi[2]]
    ELSE DpiUnknown

dpi_descriptor(f) ==
    IF f.dpi # <<>>
    THEN [form |-> "x x y dpi", a |-> f.dpi[1], b |-> f.dpi[2]]
    ELSE IF f.xres # <<>> /\ f.unit # <<>>
    THEN [form |-> "value unit", a |-> f.xres[1], b |-> f.unit[1]]
    ELSE DpiUnknown

(***************************************************************************)
(* Image.thumbnail(size): the image is left alone when it fits, else the   *)
(* side that is too long becomes the maximum and the other is the floor or *)
(* the ceiling of its exact value, whichever keeps the ratio closer, and   *)
(* at least 1.  The two keys are compared in floating point: when they are *)
(* equal as exact numbers the rounding errors decide, so both candidates   *)
(* are possible results.  The value is the set of possible sizes.          *)
(***************************************************************************)
CeilDiv(n, d) == IF n % d = 0 THEN n \div d ELSE (n \div d) + 1

\* min(floor, ceil, key=...) given the two keys, then max(..., 1)
Closest(f, c, key_f, key_c) ==
    {Max2(p, 1) : p \in IF key_f < key_c THEN {f}
                        ELSE IF key_c < key_f THEN {c} ELSE {f, c}}

\* x = round_aspect(y * aspect, key = |aspect - n / y|), y = m, aspect = w / h
round_aspect_x(w, h, m) ==
    LET f == (m * w) \div h
        c == CeilDiv(m * w, h)
    IN  Closest(f, c, Abs(m * w - f * h), Abs(m * w - c * h))

\* y = round_aspect(x / aspect, key = 0 if n == 0 else |aspect - x / n|), x = m
round_aspect_y(w, h, m) ==
    LET f == (m * h) \div w
        c == CeilDiv(m * h, w)
    IN  IF f = 0 THEN {1}
        ELSE Closest(f, c, Abs(w * f - m * h) * c, Abs(w * c - m * h) * f)

\* a faulty variant: each side is clipped on its own, the ratio is lost
thumbnail_clip(size) ==
    {<<IF size[1] > MaxThumbPx THEN MaxThumbPx ELSE size[1],
       IF size[2] > MaxThumbPx THEN MaxThumbPx ELSE size[2]>>}

thumbnail(size) ==
    LET w == size[1]
        h == size[2]
        m == MaxThumbPx
    IN  IF m >= w /\ m >= h THEN {size}
        ELSE IF h >= w THEN {<<x, m>> : x \in round_aspect_x(w, h, m)}
        ELSE {<<m, v>> : v \in round_aspect_y(w, h, m)}

(***************************************************************************)
(* Files.  A file is a record; kind is "dir" (not a regular file),         *)
(* "noimage" (Image.open raises IOError), "truncated" (Image.open          *)
(* identifies the header, reading the pixels raises) or "image".           *)
(***************************************************************************)
NoFile == [kind |-> "dir", fmt |-> "", bytes |-> 0, size |-> <<0, 0>>,
           dpi |-> <<>>, dto |-> <<>>, dt |-> <<>>, xres |-> <<>>,
           unit |-> <<>>, birth |-> <<>>, ctime |-> 0]

DirFile == NoFile

NoImageFile == [NoFile EXCEPT !.kind = "noimage", !.bytes = 10, !.ctime = 60]

TruncatedFile == [NoFile EXCEPT !.kind = "truncated", !.fmt = "JPEG",
                                !.bytes = 1000, !.size = <<800, 600>>, !.ctime = 60]

\* texts a date tag can hold: well-formed dates, impossible dates, other text
TagTexts ==
    {<<yr, mo, 29, hr, 59, 58>> : yr \in {2020, 2021}, mo \in {2, 13}, hr \in {23, 24}}
        \cup {<<0>>}

DateTags == {<<>>} \cup {<<t>> : t \in TagTexts}

Stats == {[birth |-> b, ctime |-> c] : b \in {<<>>, <<3600>>}, c \in {90061}}

\* the files extract_creation_date is applied to
DateFiles ==
    {[NoFile EXCEPT !.kind = "image", !.dto = a, !.dt = b,
                    !.birth = s.birth, !.ctime = s.ctime] :
        a \in DateTags, b \in DateTags, s \in Stats}

DpiInfos == {<<>>} \cup {<<a, b>> : a \in {0, 72, 300}, b \in {72, 300}}

\* the files the DPI descriptor is built for
DpiFiles ==
    {[NoFile EXCEPT !.kind = "image", !.dpi = d, !.xres = x, !.unit = u] :
        d \in DpiInfos, x \in {<<>>, <<72>>, <<300>>}, u \in {<<>>, <<2>>, <<3>>}}

\* the sides a source image can have
\* 2352 x 160 is a pair whose two candidates tie
Sides == {1 + 97 * n : n \in 0..DimSteps} \cup {160, 359, 360, 361, 2000, 2352, 3000}

ImageSizes == Sides \X Sides

(***************************************************************************)
(* The state outside a run of main, for the functions applied on their own.*)
(***************************************************************************)
Idle ==
    /\ folder = <<>> /\ output_pdf = <<>>
    /\ input = <<>> /\ disk = <<>> /\ written = {}
    /\ names = <<>> /\ i = 1 /\ thumbs = <<>> /\ k = 1
    /\ entries = <<>> /\ e = 1 /\ y = 0 /\ pages = 0 /\ drawn = <<>>

run == <<folder, output_pdf, input, disk, written, names, i, thumbs, k,
         entries, e, y, pages, drawn>>

InitDate == pc = "call" /\ Idle /\ arg \in DateFiles /\ ret = <<>>

CallDate ==
    /\ pc = "call"
    /\ ret' = extract_creation_date(arg)
    /\ pc' = "returned"
    /\ UNCHANGED <<run, arg>>

SpecDate == InitDate /\ [][CallDate]_vars

InitDpi == pc = "call" /\ Idle /\ arg \in DpiFiles /\ ret = <<>>

CallDpi ==
    /\ pc = "call"
    /\ ret' = dpi_descriptor(arg)
    /\ pc' = "returned"
    /\ UNCHANGED <<run, arg>>

SpecDpi == InitDpi /\ [][CallDpi]_vars

InitThumb == pc = "call" /\ Idle /\ arg \in ImageSizes /\ ret = <<>>

CallThumb ==
    /\ pc = "call"
    /\ ret' \in thumbnail(arg)
    /\ pc' = "returned"
    /\ UNCHANGED <<run, arg>>

SpecThumb == InitThumb /\ [][CallThumb]_vars

(***************************************************************************)
(* Names and paths.  A name is compared as Python compares str: by code    *)
(* point, a proper prefix first.  A path is the sequence of its components.*)
(***************************************************************************)
NamePool == {"B.png", "a.jpg", "a.jpg.png", "b.jpg"}

Codes(name) ==
    CASE name = "B.png" -> <<66, 46, 112, 110, 103>>
      [] name = "a.jpg" -> <<97, 46, 106, 112, 103>>
      [] name = "a.jpg.png" -> <<97, 46, 106, 112, 103, 46, 112, 110, 103>>
      [] name = "b.jpg" -> <<98, 46, 106, 112, 103>>
      [] name = "thumbnails" -> <<116, 104, 117, 109, 98, 110, 97, 105, 108, 115>>

RECURSIVE CodesLess(_, _)
CodesLess(s, t) ==
    IF s = <<>> THEN t # <<>>
    ELSE IF t = <<>> THEN FALSE
    ELSE IF Head(s) # Head(t) THEN Head(s) < Head(t)
    ELSE CodesLess(Tail(s), Tail(t))

StrLess(a, b) == CodesLess(Codes(a), Codes(b))

\* a faulty variant: the listing is sorted the wrong way round
RECURSIVE listed(_)
listed(S) ==
    IF S = {} THEN <<>>
    ELSE LET m == CHOOSE x \in S : \A z \in S : z = x \/ StrLess(z, x)
         IN  <<m>> \o listed(S \ {m})

\* sorted(...) of a set of distinct names
RECURSIVE sorted(_)
sorted(S) ==
    IF S = {} THEN <<>>
    ELSE LET m == CHOOSE x \in S : \A z \in S : z = x \/ StrLess(x, z)
         IN  <<m>> \o sorted(S \ {m})

\* os.path.join(directory, name)
join(directory, name) == Append(directory, name)

\* os.path.dirname(os.path.abspath(path))
dirname(path) == SubSeq(path, 1, Len(path) - 1)

\* os.listdir(directory) on the filesystem fs
listdir(fs, directory) ==
    {p[Len(p)] : p \in {q \in DOMAIN fs : Len(q) > 0 /\ dirname(q) = directory}}

\* os.path.isfile(path)
isfile(fs, path) == path \in DOMAIN fs /\ fs[path].kind # "dir"

\* os.makedirs(directory, exist_ok=True): the missing ancestors are created too
makedirs(fs, directory) ==
    LET missing == {SubSeq(directory, 1, n) : n \in 1..Len(directory)} \ DOMAIN fs
    IN  [d \in missing |-> DirFile] @@ fs

\* a faulty variant: the file is recorded but never reaches the disk
save_nothing(fs, path, file) == fs

\* img.save(path) and c.save(): the file at path is created or replaced
save(fs, path, file) == (path :> file) @@ fs

thumb_dir == join(dirname(output_pdf), "thumbnails")

(***************************************************************************)
(* The folders and files a run is started on.                              *)
(***************************************************************************)
Folders == {<<"in">>, <<"out">>, <<"out", "thumbnails">>}

\* a photograph: resolution in the image's info, a capture date
JpegFile(sz) ==
    [NoFile EXCEPT !.kind = "image", !.fmt = "JPEG", !.bytes = 2500000,
                   !.size = sz, !.dpi = <<72, 72>>,
                   !.dto = <<(<<2020, 2, 29, 23, 59, 58>>)>>, !.ctime = 90061]

\* a scan: resolution tags only, a date tag that is no date before a good one
PngFile(sz) ==
    [NoFile EXCEPT !.kind = "image", !.fmt = "PNG", !.bytes = 131072,
                   !.size = sz, !.dto = <<(<<0>>)>>,
                   !.dt = <<(<<2021, 2, 28, 7, 5, 0>>)>>,
                   !.xres = <<300>>, !.unit = <<2>>, !.birth = <<3600>>,
                   !.ctime = 90061]

SourceSizes == {<<120, 80>>, <<2000, 3000>>}

ImageFiles == {JpegFile(sz) : sz \in SourceSizes} \cup {PngFile(sz) : sz \in SourceSizes}

InputFiles == ImageFiles \cup {DirFile, NoImageFile, TruncatedFile}

Contents ==
    UNION {[S -> InputFiles] : S \in {T \in SUBSET NamePool : Cardinality(T) <= MaxFiles}}

Init ==
    /\ pc = "start"
    /\ folder \in Folders
    /\ output_pdf = <<"out", "report.pdf">>
    /\ input \in Contents
    /\ disk = [p \in {folder} \cup {join(folder, n) : n \in DOMAIN input} |->
                 IF p = folder THEN DirFile ELSE input[p[Len(p)]]]
    /\ written = {}
    /\ names = <<>> /\ i = 1 /\ thumbs = <<>> /\ k = 1
    /\ entries = <<>> /\ e = 1 /\ y = 0 /\ pages = 0 /\ drawn = <<>>
    /\ arg = <<>> /\ ret = <<>>

(***************************************************************************)
(* main, lines 147-149, and generate_thumbnails up to its loop, lines      *)
(* 54-56: the thumbnail directory is made BEFORE the folder is listed.     *)
(***************************************************************************)
Start ==
    /\ pc = "start"
    /\ disk' = makedirs(disk, thumb_dir)
    /\ names' = sorted(listdir(disk', folder))
    /\ i' = 1
    /\ thumbs' = <<>>
    /\ pc' = "thumbs"
    /\ UNCHANGED <<folder, output_pdf, input, written, k, entries, e, y, pages,
                   drawn, arg, ret>>

\* thumbs[key] = value on a dict kept in insertion order
dict_set(d, key, value) ==
    IF \E n \in 1..Len(d) : d[n].fname = key
    THEN [n \in 1..Len(d) |-> IF d[n].fname = key THEN value ELSE d[n]]
    ELSE Append(d, value)

\* the format img.save takes from the extension of the name
FormatOfName(name) == IF name \in {"B.png", "a.jpg.png"} THEN "PNG" ELSE "JPEG"

\* the file img.save writes: the resized pixels, no tags, a fresh status time
SavedFile(source, name, size) ==
    [NoFile EXCEPT !.kind = "image", !.fmt = FormatOfName(name),
                   !.bytes = 3 * size[1] * size[2], !.size = size,
                   !.birth = IF source.birth = <<>> THEN <<>> ELSE <<2000000>>,
                   !.ctime = 2000000]

\* lines 58-59: not a regular file
ThumbSkipNotFile ==
    /\ pc = "thumbs" /\ i <= Len(names)
    /\ ~isfile(disk, join(folder, names[i]))
    /\ i' = i + 1
    /\ UNCHANGED <<pc, folder, output_pdf, input, disk, written, names, thumbs,
                   k, entries, e, y, pages, drawn, arg, ret>>

\* lines 60-63: Image.open raises IOError
ThumbSkipUnreadable ==
    /\ pc = "thumbs" /\ i <= Len(names)
    /\ isfile(disk, join(folder, names[i]))
    /\ disk[join(folder, names[i])].kind = "noimage"
    /\ i' = i + 1
    /\ UNCHANGED <<pc, folder, output_pdf, input, disk, written, names, thumbs,
                   k, entries, e, y, pages, drawn, arg, ret>>

\* line 65, outside the try: Image.open has identified the file, reading its
\* pixels in img.thumbnail raises, and the exception leaves main
ThumbRaise ==
    /\ pc = "thumbs" /\ i <= Len(names)
    /\ isfile(disk, join(folder, names[i]))
    /\ disk[join(folder, names[i])].kind = "truncated"
    /\ pc' = "failed"
    /\ UNCHANGED <<folder, output_pdf, input, disk, written, names, i, thumbs,
                   k, entries, e, y, pages, drawn, arg, ret>>

\* lines 61-71: the image is resized, saved and recorded
ThumbSave ==
    /\ pc = "thumbs" /\ i <= Len(names)
    /\ isfile(disk, join(folder, names[i]))
    /\ disk[join(folder, names[i])].kind = "image"
    /\ \E size \in thumbnail(disk[join(folder, names[i])].size) :
       LET fname == names[i]
           img == disk[join(folder, fname)]
           thumb_path == join(thumb_dir, fname)
       IN  /\ disk' = save(disk, thumb_path, SavedFile(img, fname, size))
           /\ written' = written \cup {thumb_path}
           /\ thumbs' = dict_set(thumbs, fname,
                                 [fname |-> fname, path |-> thumb_path, size |-> size])
    /\ i' = i + 1
    /\ UNCHANGED <<pc, folder, output_pdf, input, names, k, entries, e, y, pages,
                   drawn, arg, ret>>

\* line 72 and line 150: the mapping is returned and handed to collect_metadata
ThumbDone ==
    /\ pc = "thumbs" /\ i > Len(names)
    /\ pc' = "collect"
    /\ k' = 1
    /\ entries' = <<>>
    /\ UNCHANGED <<folder, output_pdf, input, disk, written, names, i, thumbs,
                   e, y, pages, drawn, arg, ret>>

\* lines 77-106: one entry, from the file as it is on disk NOW
CollectEntry ==
    /\ pc = "collect" /\ k <= Len(thumbs)
    /\ LET fname == thumbs[k].fname
           img == disk[join(folder, fname)]
       IN  entries' = Append(entries,
               [filename |-> fname,
                doc_type |-> img.fmt,
                file_size |-> format_filesize(img.bytes),
                creation_date |-> format_datetime(extract_creation_date(img)),
                image_size |-> [width |-> img.size[1], height |-> img.size[2]],
                dpi |-> dpi_descriptor(img),
                thumb_path |-> thumbs[k].path,
                thumb_size |-> thumbs[k].size])
    /\ k' = k + 1
    /\ UNCHANGED <<pc, folder, output_pdf, input, disk, written, names, i, thumbs,
                   e, y, pages, drawn, arg, ret>>

\* line 107, line 151 and lines 111-113
CollectDone ==
    /\ pc = "collect" /\ k > Len(thumbs)
    /\ pc' = "report"
    /\ e' = 1
    /\ y' = PAGE_HEIGHT - MARGIN
    /\ pages' = 0
    /\ drawn' = <<>>
    /\ UNCHANGED <<folder, output_pdf, input, disk, written, names, i, thumbs,
                   k, entries, arg, ret>>

(***************************************************************************)
(* create_pdf_report, lines 114-142.                                       *)
(***************************************************************************)
\* the six lines of lines 130-137, in the order they are drawn
LineLabels == <<"File name", "Document Type", "File size", "Creation Date",
                "Image size", "Image DPI">>

\* lines 115-118: a thumbnail pixel is taken as one point
thumb_w(entry) == entry.thumb_size[1] * PtUnit
thumb_h(entry) == entry.thumb_size[2] * PtUnit

\* a faulty variant: the text lines are forgotten in the space an entry needs
needed_space_image_only(entry) == thumb_h(entry) + ENTRY_SPACING

\* line 119
needed_space(entry) == thumb_h(entry) + (6 * LINE_HEIGHT) + ENTRY_SPACING

\* a faulty variant: the bottom margin is forgotten in the fit test
page_full_no_margin(cursor, entry) == cursor < needed_space(entry)

\* line 120
page_full(cursor, entry) == cursor < MARGIN + needed_space(entry)

\* lines 130-139: where each line is drawn, text_y going down after each
RECURSIVE draw_lines(_, _)
draw_lines(text_y, lines) ==
    IF lines = <<>> THEN <<>>
    ELSE <<text_y>> \o draw_lines(text_y - LINE_HEIGHT, Tail(lines))

\* text_y when the loop of lines 130-139 is left
RECURSIVE text_y_after(_, _)
text_y_after(text_y, lines) ==
    IF lines = <<>> THEN text_y
    ELSE text_y_after(text_y - LINE_HEIGHT, Tail(lines))

\* lines 123-141 for the entry at hand, with the cursor at top
Draw(top, new_page) ==
    LET entry == entries[e]
        text_y == top - thumb_h(entry) - LINE_HEIGHT
    IN  /\ drawn' = Append(drawn,
               [filename |-> entry.filename,
                new_page |-> new_page,
                y_before |-> y,
                y |-> top,
                page |-> pages',
                image |-> [path |-> entry.thumb_path, x |-> MARGIN,
                           y |-> top - thumb_h(entry),
                           width |-> thumb_w(entry), height |-> thumb_h(entry)],
                text_x |-> MARGIN,
                text_ys |-> draw_lines(text_y, LineLabels)])
        /\ y' = text_y_after(text_y, LineLabels) - ENTRY_SPACING
        /\ e' = e + 1

\* lines 120-122 taken: c.showPage(), the cursor back at the top margin
DrawEntryNewPage ==
    /\ pc = "report" /\ e <= Len(entries)
    /\ page_full(y, entries[e])
    /\ pages' = pages + 1
    /\ Draw(PAGE_HEIGHT - MARGIN, TRUE)
    /\ UNCHANGED <<pc, folder, output_pdf, input, disk, written, names, i, thumbs,
                   k, entries, arg, ret>>

\* lines 120-122 not taken
DrawEntrySamePage ==
    /\ pc = "report" /\ e <= Len(entries)
    /\ ~page_full(y, entries[e])
    /\ pages' = pages
    /\ Draw(y, FALSE)
    /\ UNCHANGED <<pc, folder, output_pdf, input, disk, written, names, i, thumbs,
                   k, entries, arg, ret>>

PdfFile == [NoFile EXCEPT !.kind = "pdf", !.fmt = "PDF"]

\* line 142: c.save() writes the document
ReportDone ==
    /\ pc = "report" /\ e > Len(entries)
    /\ disk' = save(disk, output_pdf, PdfFile)
    /\ written' = written \cup {output_pdf}
    /\ pc' = "done"
    /\ UNCHANGED <<folder, output_pdf, input, names, i, thumbs, k, entries, e, y,
                   pages, drawn, arg, ret>>

Next ==
    \/ Start
    \/ ThumbSkipNotFile
    \/ ThumbSkipUnreadable
    \/ ThumbRaise
    \/ ThumbSave
    \/ ThumbDone
    \/ CollectEntry
    \/ CollectDone
    \/ DrawEntryNewPage
    \/ DrawEntrySamePage
    \/ ReportDone

Spec == Init /\ [][Next]_vars

(***************************************************************************)
(* create_pdf_report on its own, on any list of entries.                   *)
(***************************************************************************)
ThumbSizes == {<<1, 1>>, <<100, 100>>, <<360, 240>>, <<240, 360>>, <<500, 700>>}

ReportEntry(size) ==
    [filename |-> "a.jpg", doc_type |-> "JPEG",
     file_size |-> format_filesize(2500000),
     creation_date |-> format_datetime(<<2020, 2, 29, 23, 59, 58>>),
     image_size |-> [width |-> 3000, height |-> 2000],
     dpi |-> DpiUnknown,
     thumb_path |-> <<"out", "thumbnails", "a.jpg">>,
     thumb_size |-> size]

EntryLists ==
    UNION {[1..n -> {ReportEntry(sz) : sz \in ThumbSizes}] : n \in 0..MaxEntries}

InitReport ==
    /\ pc = "report"
    /\ folder = <<"in">>
    /\ output_pdf = <<"out", "report.pdf">>
    /\ input = <<>> /\ disk = <<>> /\ written = {}
    /\ names = <<>> /\ i = 1 /\ thumbs = <<>> /\ k = 1
    /\ entries \in EntryLists
    /\ e = 1
    /\ y = PAGE_HEIGHT - MARGIN
    /\ pages = 0
    /\ drawn = <<>>
    /\ arg = <<>> /\ ret = <<>>

NextReport == DrawEntryNewPage \/ DrawEntrySamePage \/ ReportDone

SpecReport == InitReport /\ [][NextReport]_vars

(***************************************************************************)
(* Properties of create_pdf_report (SpecReport).                           *)
(***************************************************************************)
\* the page count before the n-th entry was handled
PagesBefore(n) == IF n = 1 THEN 0 ELSE drawn[n - 1].page

\* the cursor the loop went on with after the n-th entry
CursorAfter(n) == IF n < Len(drawn) THEN drawn[n + 1].y_before ELSE y

\* C1: a page is started right before an entry exactly when the room left above
\* the bottom margin, y - MARGIN, is less than thumbnail height + 6 lines +
\* spacing, and an entry that starts a page is drawn from the top margin.
C1_NewPageIffNoRoom ==
    \A n \in 1..Len(drawn) :
        LET d == drawn[n]
            N == d.image.height + 6 * LINE_HEIGHT + ENTRY_SPACING
            started == d.page = PagesBefore(n) + 1
        IN  /\ d.page \in {PagesBefore(n), PagesBefore(n) + 1}
            /\ started <=> (d.y_before - MARGIN < N)
            /\ started <=> d.new_page
            /\ started => /\ d.y = PAGE_HEIGHT - MARGIN
                          /\ d.image.y + d.image.height = PAGE_HEIGHT - MARGIN

C1_Witness ==
    /\ pc = "done" /\ Len(drawn) >= 3
    /\ drawn[1].page = 0 /\ drawn[2].page = 0 /\ drawn[3].page = 1
    /\ drawn[3].y = PAGE_HEIGHT - MARGIN

AllThumbsWithinMax ==
    \A n \in 1..Len(entries) :
        /\ thumb_w(entries[n]) <= MAX_THUMB_DIM
        /\ thumb_h(entries[n]) <= MAX_THUMB_DIM

\* C2: when no thumbnail is wider or higher than MAX_THUMB_DIM, every thumbnail
\* drawn lies inside the margins, vertically and horizontally, and each of the six
\* text lines is drawn between the bottom and the top margin.
C2_WithinMargins ==
    AllThumbsWithinMax =>
        \A n \in 1..Len(drawn) :
            LET d == drawn[n]
            IN  /\ d.image.y >= MARGIN
                /\ d.image.y + d.image.height <= PAGE_HEIGHT - MARGIN
                /\ d.image.x >= MARGIN
                /\ d.image.x + d.image.width <= PAGE_WIDTH - MARGIN
                /\ Len(d.text_ys) = 6
                /\ \A t \in 1..Len(d.text_ys) :
                       /\ d.text_ys[t] >= MARGIN
                       /\ d.text_ys[t] <= PAGE_HEIGHT - MARGIN

C2_Witness ==
    /\ pc = "done" /\ AllThumbsWithinMax /\ Len(drawn) >= 3
    /\ drawn[Len(drawn)].page >= 1
    /\ \E n \in 1..Len(drawn) : drawn[n].image.height = MAX_THUMB_DIM
    /\ \E n \in 1..Len(drawn) : drawn[n].image.width = MAX_THUMB_DIM

\* C9: drawing an entry lowers the cursor by exactly the space the fit test
\* computed for it: thumbnail height + 6 lines + spacing.
C9_CursorLoweredByNeededSpace ==
    \A n \in 1..Len(drawn) :
        CursorAfter(n) =
            drawn[n].y - (drawn[n].image.height + 6 * LINE_HEIGHT + ENTRY_SPACING)

(***************************************************************************)
(* Properties of a run of main (Spec).                                     *)
(***************************************************************************)
ThumbNames == [n \in 1..Len(thumbs) |-> thumbs[n].fname]
EntryNames == [n \in 1..Len(entries) |-> entries[n].filename]
DrawnNames == [n \in 1..Len(drawn) |-> drawn[n].filename]

Range(seq) == {seq[n] : n \in 1..Len(seq)}

StrictlyAscending(seq) ==
    \A a, b \in 1..Len(seq) : a < b => StrLess(seq[a], seq[b])

\* the names of the folder that decode as images
ImageNames == {n \in DOMAIN input : input[n].kind = "image"}

\* the names of the folder whose decoding fails
UndecodableNames == {n \in DOMAIN input : input[n].kind \in {"noimage", "truncated"}}

\* C3: the files are taken in strictly ascending order of their names, and the
\* thumbnail mapping, the entry list and the drawing order all are the ascending
\* sequence of the names that decoded as images.
C3_SortedOrderKept ==
    /\ StrictlyAscending(names)
    /\ StrictlyAscending(ThumbNames)
    /\ pc = "thumbs" =>
           Range(ThumbNames) = ImageNames \cap Range(SubSeq(names, 1, i - 1))
    /\ pc \in {"collect", "report", "done"} => Range(ThumbNames) = ImageNames
    /\ pc = "collect" => EntryNames = SubSeq(ThumbNames, 1, k - 1)
    /\ pc \in {"report", "done"} => EntryNames = ThumbNames
    /\ pc = "report" => DrawnNames = SubSeq(EntryNames, 1, e - 1)
    /\ pc = "done" => DrawnNames = EntryNames

C3_Witness ==
    /\ pc = "done"
    /\ DrawnNames = <<"B.png", "a.jpg", "a.jpg.png">>

\* C4: a file whose decoding fails never makes the run fail; it gets no
\* thumbnail, no record and no entry, and the other files are still handled.
C4_UndecodableFilesAreSkipped ==
    /\ pc # "failed"
    /\ \A n \in UndecodableNames :
           /\ n \notin Range(ThumbNames)
           /\ n \notin Range(EntryNames)
           /\ n \notin Range(DrawnNames)
           /\ join(thumb_dir, n) \notin written
    /\ pc = "done" => Range(DrawnNames) = ImageNames

\* C8: when the report is composed, both earlier loops have ended, every entry's
\* thumbnail file is on disk at its thumb_path, and entries and thumbnail records
\* match one to one.
C8_ThumbnailsOnDiskBeforeReport ==
    pc = "report" =>
        /\ i > Len(names)
        /\ k > Len(thumbs)
        /\ Range(ThumbNames) = ImageNames
        /\ Len(entries) = Len(thumbs)
        /\ Cardinality(Range(EntryNames)) = Len(entries)
        /\ \A n \in 1..Len(entries) :
               /\ entries[n].filename = thumbs[n].fname
               /\ entries[n].thumb_path = thumbs[n].path
               /\ entries[n].thumb_size = thumbs[n].size
               /\ entries[n].thumb_path \in DOMAIN disk
               /\ disk[entries[n].thumb_path].kind = "image"
               /\ disk[entries[n].thumb_path].size = entries[n].thumb_size

C8_Witness ==
    /\ pc = "report" /\ e = 1 /\ Len(entries) >= 2
    /\ UndecodableNames # {}

SourcePaths == {join(folder, n) : n \in DOMAIN input}

\* C10: a run writes nothing but the thumbnails in the thumbnails directory and
\* the PDF, never a file of the input folder, and no thumbnail path is the path
\* of a source file.
C10_SourcesNeverWritten ==
    /\ written \subseteq {join(thumb_dir, n) : n \in DOMAIN input} \cup {output_pdf}
    /\ written \cap SourcePaths = {}
    /\ \A n \in DOMAIN input : disk[join(folder, n)] = input[n]
    /\ \A n \in 1..Len(thumbs) : thumbs[n].path \notin SourcePaths

(***************************************************************************)
(* Properties of the functions applied on their own.                       *)
(***************************************************************************)
TagParses(tag) == tag # <<>> /\ strptime_ok(tag[1])

\* C5: the date is DateTimeOriginal when it is present and parses, else DateTime
\* when it is present and parses, else the filesystem date.
C5_FirstParseableTagWins ==
    pc = "returned" =>
        ret = IF TagParses(arg.dto) THEN arg.dto[1]
              ELSE IF TagParses(arg.dt) THEN arg.dt[1]
              ELSE get_file_creation_date(arg)

\* C6: the descriptor comes from the image's own resolution info when there is
\* one; else from the resolution tags, as "<value> <unit>", when they are there;
\* and it is "Unknown" when there is neither.
C6_DpiChain ==
    pc = "returned" =>
        /\ arg.dpi # <<>> =>
               ret = [form |-> "x x y dpi", a |-> arg.dpi[1], b |-> arg.dpi[2]]
        /\ (arg.dpi = <<>> /\ arg.xres # <<>> /\ arg.unit # <<>>) =>
               ret = [form |-> "value unit", a |-> arg.xres[1], b |-> arg.unit[1]]
        /\ (arg.dpi = <<>> /\ arg.xres = <<>> /\ arg.unit = <<>>) =>
               ret.form = "Unknown"

C6_Witness ==
    /\ pc = "returned"
    /\ arg.dpi = <<>> /\ arg.xres = <<300>> /\ arg.unit = <<2>>
    /\ ret.form = "value unit"

\* C7: neither side of the thumbnail exceeds 360 pixels, the ratio of its sides is
\* the source's up to less than one pixel on a side, and an image that already
\* fits keeps its size.
C7_ThumbnailFitsAndKeepsRatio ==
    pc = "returned" =>
        /\ ret[1] \in 1..360 /\ ret[2] \in 1..360
        /\ Abs(ret[1] * arg[2] - ret[2] * arg[1]) < Max2(arg[1], arg[2])
        /\ (arg[1] <= 360 /\ arg[2] <= 360) => ret = arg

C7_Witness ==
    /\ pc = "returned"
    /\ arg = <<3000, 2000>>
    /\ ret = <<360, 240>>

====
